---- MODULE Spec2Model ----
(***************************************************************************)
(* firal: ingestion of netfilter log lines into the entries table.         *)
(*                                                                         *)
(* A Rust &str is modelled as a sequence of characters, each character a   *)
(* TLA+ string.  Every character is one byte wide except MULTIBYTE, which  *)
(* stands for a character whose UTF-8 encoding is longer than one byte.    *)
(* Rust indexes from 0, TLA+ sequences from 1: token i of the source is    *)
(* element i + 1 of the model's sequences.                                 *)
(***************************************************************************)
EXTENDS Integers, Sequences, FiniteSets, TLC

VARIABLES
    content,            \* ingest_file: content.lines(), the lines of the file
    i,                  \* ingest_file: position of the for loop in content
    pc,                 \* where the program is
    run,                \* how many times main has been started on the file
    entries,            \* the rows of table entries, in insertion order
    offered,            \* the db_conn.execute calls made so far
    skipped,            \* the lines reported as "skipped line"
    first_run_entries,  \* table entries when the first run stopped
    parsed,             \* insert_line: the HashMap it was given
    todo,               \* insert_line: keys the for loop has yet to visit
    entry,              \* insert_line: the Entry being built
    bracket,            \* parse_brackets: its argument
    extracted           \* parse_brackets: its result

vars == <<content, i, pc, run, entries, offered, skipped, first_run_entries,
          parsed, todo, entry, bracket, extracted>>

----------------------------------------------------------------------------
(* Bounds of the model *)

\* longest token handed to parse_brackets in SpecBrackets
MaxTokLen == 6

\* most lines of a file with more than one line
MaxLines == 2

\* most tokens after the annotation in the one-line files
MaxTail == 2

\* how many times main is run on a file
MaxRuns == 2

----------------------------------------------------------------------------
(* Result and Option *)

OutOfBounds == "out of bounds access"

Ok(v) == [ok |-> TRUE, val |-> v, err |-> ""]

Err(e) == [ok |-> FALSE, val |-> <<>>, err |-> e]

\* Option<T>: None is the empty set and Some(v) the set of v alone
None == {}

Some(v) == {v}

is_some(o) == o # {}

\* Option::unwrap on a Some
the(o) == CHOOSE v \in o : TRUE

----------------------------------------------------------------------------
(* str *)

MULTIBYTE == "U+00E9"

\* char::len_utf8
len_utf8(c) == IF c = MULTIBYTE THEN 2 ELSE 1

\* the pieces of s from position start on, s cut at every occurrence of c
RECURSIVE split_from(_, _, _)
split_from(s, c, start) ==
    LET found == {n \in start..Len(s) : s[n] = c}
    IN  IF found = {} THEN <<SubSeq(s, start, Len(s))>>
        ELSE LET n == CHOOSE n \in found : \A m \in found : n <= m
             IN  <<SubSeq(s, start, n - 1)>> \o split_from(s, c, n + 1)

\* str::split(char): the pieces of s between the occurrences of c, in order;
\* always at least one piece, and one more piece than there are occurrences
split(s, c) == split_from(s, c, 1)

\* str::get(1..): the text from byte 1 on, None when byte 1 is past the end
\* or is not the start of a character
get_from_1(s) ==
    IF s = <<>> THEN None
    ELSE IF len_utf8(Head(s)) # 1 THEN None
    ELSE Some(Tail(s))

\* Vec::get(n) on a Vec<&str>, n counted from 0
vec_get(v, n) == IF n + 1 <= Len(v) THEN Some(v[n + 1]) ELSE None

----------------------------------------------------------------------------
(* parse_brackets *)

\* the bug "flow_type keeps the opening bracket"
parse_brackets_keeps_first_char(s) ==
    LET split_end_bracket == split(s, "]")
        split_inner == split(split_end_bracket[1], "-")
    IN  IF Len(split_end_bracket) < 2 THEN Err(OutOfBounds)
        ELSE LET in_interface == split(split_end_bracket[2], "=")
             IN  IF Len(split_inner) < 3 \/ Len(in_interface) < 2
                 THEN Err(OutOfBounds)
                 ELSE Ok(<<split_inner[1], split_inner[2], split_inner[3],
                           in_interface[2]>>)

parse_brackets(s) ==
    LET split_end_bracket == split(s, "]")
    IN  IF ~is_some(vec_get(split_end_bracket, 0)) THEN Err(OutOfBounds)
        ELSE
        LET split_inner == split(the(vec_get(split_end_bracket, 0)), "-")
        IN  IF ~is_some(vec_get(split_end_bracket, 1)) THEN Err(OutOfBounds)
            ELSE
            LET in_interface == split(the(vec_get(split_end_bracket, 1)), "=")
                flow_type == get_from_1(split_inner[1])
                rule_id == vec_get(split_inner, 1)
                fw_action == vec_get(split_inner, 2)
                interface == vec_get(in_interface, 1)
            IN  IF ~is_some(flow_type) THEN Err(OutOfBounds)
                ELSE IF ~is_some(rule_id) THEN Err(OutOfBounds)
                ELSE IF ~is_some(fw_action) THEN Err(OutOfBounds)
                ELSE IF ~is_some(interface) THEN Err(OutOfBounds)
                ELSE Ok(<<the(flow_type), the(rule_id), the(fw_action),
                          the(interface)>>)

----------------------------------------------------------------------------
(* parse_line *)

\* the keys insert_line matches on
KEY_ID == <<"I", "D">>

KEY_IN == <<"I", "N">>

KEY_OUT == <<"O", "U", "T">>

KEY_SRC == <<"S", "R", "C">>

KEY_DST == <<"D", "S", "T">>

KEY_LEN == <<"L", "E", "N">>

KEY_PROTO == <<"P", "R", "O", "T", "O">>

KEY_SPT == <<"S", "P", "T">>

KEY_DPT == <<"D", "P", "T">>

KEY_RULE_ID == <<"R", "U", "L", "E", "_", "I", "D">>

KEY_FLOW_TYPE == <<"F", "L", "O", "W", "_", "T", "Y", "P", "E">>

KEY_FW_ACTION == <<"F", "W", "_", "A", "C", "T", "I", "O", "N">>

KEY_LOGGED_AT == <<"L", "O", "G", "G", "E", "D", "_", "A", "T">>

\* HashMap::new
HashMap_new == [k \in {} |-> <<>>]

\* HashMap::insert: the value of an existing key is replaced
hashmap_insert(map, k, v) ==
    [x \in (DOMAIN map) \cup {k} |-> IF x = k THEN v ELSE map[x]]

\* the bug "a malformed annotation is passed over": token 3 is skipped like
\* tokens 1 and 2 and the scan goes on
annotation_arm_passes_over(map, data) ==
    LET r == parse_brackets(data)
    IN  IF ~r.ok THEN Ok(map)
        ELSE Ok(hashmap_insert(
                 hashmap_insert(
                     hashmap_insert(
                         hashmap_insert(map, KEY_FW_ACTION, r.val[3]),
                         KEY_RULE_ID, r.val[2]),
                     KEY_FLOW_TYPE, r.val[1]),
                 KEY_IN, r.val[4]))

\* the arm "3 =>" of the match in parse_line: Err when parse_brackets fails,
\* else the map with the four synthetic keys written
annotation_arm(map, data) ==
    LET r == parse_brackets(data)
    IN  IF ~r.ok THEN Err(r.err)
        ELSE Ok(hashmap_insert(
                 hashmap_insert(
                     hashmap_insert(
                         hashmap_insert(map, KEY_FW_ACTION, r.val[3]),
                         KEY_RULE_ID, r.val[2]),
                     KEY_FLOW_TYPE, r.val[1]),
                 KEY_IN, r.val[4]))

\* the bug "the first value of a key is kept" (entry().or_insert())
kv_arm_keeps_earlier(map, data) ==
    LET kv == split(data, "=")
    IN  IF Len(kv) < 2 THEN map
        ELSE IF kv[1] \in DOMAIN map THEN map
        ELSE hashmap_insert(map, kv[1], kv[2])

\* the bug "a token without '=' is stored as a key with an empty value"
kv_arm_stores_flags(map, data) ==
    LET kv == split(data, "=")
    IN  IF Len(kv) < 2 THEN hashmap_insert(map, kv[1], <<>>)
        ELSE hashmap_insert(map, kv[1], kv[2])

\* the change "the token is split on its first '=' only" (splitn(2, '='))
kv_arm_splits_once(map, data) ==
    LET kv == split(data, "=")
    IN  IF Len(kv) < 2 THEN map
        ELSE hashmap_insert(map, kv[1],
                            SubSeq(data, Len(kv[1]) + 2, Len(data)))

\* the arm "_ =>" of the match in parse_line: kv[0] and kv[1] of the token
\* split on every '=', nothing when there is no '='
kv_arm(map, data) ==
    LET kv == split(data, "=")
    IN  IF Len(kv) < 2 THEN map
        ELSE hashmap_insert(map, kv[1], kv[2])

\* the for loop of parse_line from token n (counted from 0) on
RECURSIVE parse_loop(_, _, _)
parse_loop(line_arr, n, map) ==
    IF n >= Len(line_arr) THEN Ok(map)
    ELSE LET data == line_arr[n + 1]
         IN  CASE n = 0 ->
                    parse_loop(line_arr, n + 1,
                               hashmap_insert(map, KEY_LOGGED_AT, data))
               [] n \in {1, 2} -> parse_loop(line_arr, n + 1, map)
               [] n = 3 ->
                    LET r == annotation_arm(map, data)
                    IN  IF ~r.ok THEN r
                        ELSE parse_loop(line_arr, n + 1, r.val)
               [] OTHER -> parse_loop(line_arr, n + 1, kv_arm(map, data))

parse_line(l) == parse_loop(split(l, " "), 0, HashMap_new)

----------------------------------------------------------------------------
(* The conversions of insert_line *)

Digits == <<"0", "1", "2", "3", "4", "5", "6", "7", "8", "9">>

is_digit(c) == \E d \in 1..10 : Digits[d] = c

to_digit(c) == (CHOOSE d \in 1..10 : Digits[d] = c) - 1

I32_MAX == 2147483647

I32_MIN == -I32_MAX - 1

ParseIntError == "invalid digit or overflow"

\* the digits of s appended to acc, as i32::from_str_radix does it:
\* checked_mul(10) then checked_add(digit), or checked_sub for a negative
RECURSIVE accumulate(_, _, _)
accumulate(s, acc, negative) ==
    IF s = <<>> THEN Ok(acc)
    ELSE IF ~is_digit(Head(s)) THEN Err(ParseIntError)
    ELSE IF acc > I32_MAX \div 10 \/ acc < -(I32_MAX \div 10)
         THEN Err(ParseIntError)
    ELSE LET d == to_digit(Head(s))
         IN  IF negative
             THEN IF acc * 10 < I32_MIN + d THEN Err(ParseIntError)
                  ELSE accumulate(Tail(s), acc * 10 - d, negative)
             ELSE IF acc * 10 > I32_MAX - d THEN Err(ParseIntError)
                  ELSE accumulate(Tail(s), acc * 10 + d, negative)

\* str::parse::<i32>: an optional sign, then one decimal digit or more
parse_i32(s) ==
    IF s = <<>> THEN Err(ParseIntError)
    ELSE IF Head(s) \in {"+", "-"}
         THEN IF Tail(s) = <<>> THEN Err(ParseIntError)
              ELSE accumulate(Tail(s), 0, Head(s) = "-")
    ELSE accumulate(s, 0, FALSE)

two_digits(s, p) == to_digit(s[p]) * 10 + to_digit(s[p + 1])

is_leap_year(y) == y % 4 = 0 /\ (y % 100 # 0 \/ y % 400 = 0)

days_in_month(y, m) ==
    IF m = 2 THEN (IF is_leap_year(y) THEN 29 ELSE 28)
    ELSE IF m \in {4, 6, 9, 11} THEN 30 ELSE 31

\* days from 1970-01-01 to the date y-m-d
days_from_civil(y, m, d) ==
    LET yy == IF m <= 2 THEN y - 1 ELSE y
        era == yy \div 400
        yoe == yy - era * 400
        mp == IF m > 2 THEN m - 3 ELSE m + 9
        doy == (153 * mp + 2) \div 5 + d - 1
        doe == yoe * 365 + yoe \div 4 - yoe \div 100 + doy
    IN  era * 146097 + doe - 719468

ParseError == "input is not RFC 3339"

\* DateTime::parse_from_rfc3339 on the form YYYY-MM-DDTHH:MM:SS followed by
\* Z or by +HH:MM or -HH:MM: the instant in seconds since 1970-01-01T00:00:00Z
\* and the offset in seconds.  Fractional seconds, leap seconds and lower
\* case t and z, which the inputs of the model do not use, are not modelled.
parse_from_rfc3339(s) ==
    LET shape ==
            /\ Len(s) \in {20, 25}
            /\ \A p \in {1, 2, 3, 4, 6, 7, 9, 10, 12, 13, 15, 16, 18, 19} :
                   is_digit(s[p])
            /\ s[5] = "-" /\ s[8] = "-" /\ s[11] = "T"
            /\ s[14] = ":" /\ s[17] = ":"
            /\ IF Len(s) = 20 THEN s[20] = "Z"
               ELSE /\ s[20] \in {"+", "-"}
                    /\ is_digit(s[21]) /\ is_digit(s[22]) /\ s[23] = ":"
                    /\ is_digit(s[24]) /\ is_digit(s[25])
    IN  IF ~shape THEN Err(ParseError)
        ELSE
        LET year == two_digits(s, 1) * 100 + two_digits(s, 3)
            month == two_digits(s, 6)
            day == two_digits(s, 9)
            hour == two_digits(s, 12)
            minute == two_digits(s, 15)
            second == two_digits(s, 18)
            off_h == IF Len(s) = 20 THEN 0 ELSE two_digits(s, 21)
            off_m == IF Len(s) = 20 THEN 0 ELSE two_digits(s, 24)
            sign == IF Len(s) = 25 /\ s[20] = "-" THEN -1 ELSE 1
            offset == sign * (off_h * 3600 + off_m * 60)
        IN  IF \/ month \notin 1..12
               \/ day \notin 1..days_in_month(year, month)
               \/ hour > 23 \/ minute > 59 \/ second > 59
               \/ off_h > 23 \/ off_m > 59
            THEN Err(ParseError)
            ELSE Ok([utc |-> days_from_civil(year, month, day) * 86400
                             + hour * 3600 + minute * 60 + second - offset,
                     offset |-> offset])

----------------------------------------------------------------------------
(* Entry and insert_line *)

\* Entry::new, Entry::default
Entry_new ==
    [id |-> 0, src_ip |-> <<>>, src_port |-> 0, dst_ip |-> <<>>,
     dst_port |-> 0, packet_size |-> 0, packet_id |-> 0, protocol |-> <<>>,
     flow_type |-> <<>>, rule_id |-> <<>>, fw_action |-> <<>>,
     in_interface |-> <<>>, out_interface |-> None, logged_at |-> None]

\* the panic of Result::unwrap on an Err value
Panicked == "panicked"

\* Result::unwrap applied to r, the value then stored in a field of e
unwrap_then(r, e, field) ==
    IF r.ok THEN Ok([e EXCEPT ![field] = r.val]) ELSE Err(Panicked)

\* the bug "OUT is written to in_interface": two keys of the map then write
\* one field, and the order of the map decides which one wins
apply_key_out_to_in_interface(e, k, v) ==
    CASE k = KEY_IN -> Ok([e EXCEPT !.in_interface = v])
      [] k = KEY_OUT -> Ok([e EXCEPT !.in_interface = v])
      [] k = KEY_SRC -> Ok([e EXCEPT !.src_ip = v])
      [] k = KEY_DST -> Ok([e EXCEPT !.dst_ip = v])
      [] k = KEY_PROTO -> Ok([e EXCEPT !.protocol = v])
      [] k = KEY_RULE_ID -> Ok([e EXCEPT !.rule_id = v])
      [] k = KEY_FLOW_TYPE -> Ok([e EXCEPT !.flow_type = v])
      [] k = KEY_FW_ACTION -> Ok([e EXCEPT !.fw_action = v])
      [] k = KEY_ID -> unwrap_then(parse_i32(v), e, "packet_id")
      [] k = KEY_LEN -> unwrap_then(parse_i32(v), e, "packet_size")
      [] k = KEY_SPT -> unwrap_then(parse_i32(v), e, "src_port")
      [] k = KEY_DPT -> unwrap_then(parse_i32(v), e, "dst_port")
      [] k = KEY_LOGGED_AT ->
            LET r == parse_from_rfc3339(v)
            IN  IF r.ok THEN Ok([e EXCEPT !.logged_at = Some(r.val)])
                ELSE Err(Panicked)
      [] OTHER -> Ok(e)

\* one turn of the for loop of insert_line: the match on the key k with
\* value v; Err(Panicked) when an unwrap panics
apply_key(e, k, v) ==
    CASE k = KEY_ID -> unwrap_then(parse_i32(v), e, "packet_id")
      [] k = KEY_IN -> Ok([e EXCEPT !.in_interface = v])
      [] k = KEY_OUT -> Ok([e EXCEPT !.out_interface = Some(v)])
      [] k = KEY_SRC -> Ok([e EXCEPT !.src_ip = v])
      [] k = KEY_DST -> Ok([e EXCEPT !.dst_ip = v])
      [] k = KEY_LEN -> unwrap_then(parse_i32(v), e, "packet_size")
      [] k = KEY_PROTO -> Ok([e EXCEPT !.protocol = v])
      [] k = KEY_SPT -> unwrap_then(parse_i32(v), e, "src_port")
      [] k = KEY_DPT -> unwrap_then(parse_i32(v), e, "dst_port")
      [] k = KEY_RULE_ID -> Ok([e EXCEPT !.rule_id = v])
      [] k = KEY_FLOW_TYPE -> Ok([e EXCEPT !.flow_type = v])
      [] k = KEY_FW_ACTION -> Ok([e EXCEPT !.fw_action = v])
      [] k = KEY_LOGGED_AT ->
            LET r == parse_from_rfc3339(v)
            IN  IF r.ok THEN Ok([e EXCEPT !.logged_at = Some(r.val)])
                ELSE Err(Panicked)
      [] OTHER -> Ok(e)

\* the whole for loop of insert_line over the keys yet to visit, in one
\* order of the map
RECURSIVE build_entry(_, _, _)
build_entry(map, keys, e) ==
    IF keys = {} THEN Ok(e)
    ELSE LET k == CHOOSE k \in keys : TRUE
             r == apply_key(e, k, map[k])
         IN  IF ~r.ok THEN r ELSE build_entry(map, keys \ {k}, r.val)

----------------------------------------------------------------------------
(* The table entries and the INSERT of insert_line *)

NULL == None

\* the twelve columns the INSERT statement names, with the values bound to
\* them; a TIMESTAMP WITH TIME ZONE keeps the instant and not the offset
row_of(e) ==
    [src_ip |-> e.src_ip, src_port |-> e.src_port, dst_ip |-> e.dst_ip,
     dst_port |-> e.dst_port, packet_id |-> e.packet_id,
     packet_size |-> e.packet_size, protocol |-> e.protocol,
     flow_type |-> e.flow_type, rule_id |-> e.rule_id,
     out_interface |-> e.out_interface, in_interface |-> e.in_interface,
     logged_at |-> IF is_some(e.logged_at) THEN Some(the(e.logged_at).utc)
                   ELSE NULL]

\* NOT NULL, CHECK and VARCHAR(n) of CREATE TABLE entries
violates_column_constraints(row) ==
    \/ row.src_ip = <<>> \/ Len(row.src_ip) > 16
    \/ row.dst_ip = <<>> \/ Len(row.dst_ip) > 16
    \/ Len(row.in_interface) > 16
    \/ row.out_interface = NULL
    \/ (row.out_interface # NULL /\ Len(the(row.out_interface)) > 16)
    \/ Len(row.protocol) > 16
    \/ Len(row.flow_type) > 16
    \/ Len(row.rule_id) > 32
    \/ row.logged_at = NULL

unique_key(row) ==
    <<row.src_ip, row.protocol, row.packet_id, row.packet_size, row.logged_at>>

\* the bug "the table has no UNIQUE constraint"
violates_unique_never(table, row) == FALSE

\* UNIQUE(src_ip, protocol, packet_id, packet_size, logged_at)
violates_unique(table, row) ==
    \E n \in 1..Len(table) : unique_key(table[n]) = unique_key(row)

DbError == "db error"

\* db_conn.execute("INSERT INTO entries ..."): the table afterwards and the
\* Result, Ok(rows inserted) or Err
execute_insert(table, e) ==
    LET row == row_of(e)
    IN  IF violates_column_constraints(row) \/ violates_unique(table, row)
        THEN [table |-> table, result |-> Err(DbError)]
        ELSE [table |-> Append(table, row), result |-> Ok(1)]

----------------------------------------------------------------------------
(* Tokens and lines the model reads *)

\* the timestamp of tests::parse_line_happy_path
TS_PST == <<"2", "0", "1", "9", "-", "0", "1", "-", "1", "2", "T", "1", "3",
    ":", "5", "6", ":", "0", "5", "-", "0", "8", ":", "0", "0">>

\* the same instant, written with another offset
TS_UTC == <<"2", "0", "1", "9", "-", "0", "1", "-", "1", "2", "T", "2", "1",
    ":", "5", "6", ":", "0", "5", "+", "0", "0", ":", "0", "0">>

\* another instant
TS_ZULU == <<"2", "0", "1", "9", "-", "0", "1", "-", "1", "2", "T", "1",
    "3", ":", "5", "6", ":", "0", "6", "Z">>

\* not RFC 3339: the time is missing
TS_DATE_ONLY == <<"2", "0", "1", "9", "-", "0", "1", "-", "1", "2">>

HOST == <<"h", "o", "s", "t">>

KERNEL == <<"k", "e", "r", "n", "e", "l", ":">>

\* token 3 of tests::parse_line_happy_path
BR_LOCAL == <<"[", "L", "A", "N", "_", "L", "O", "C", "A", "L", "-", "d",
    "e", "f", "a", "u", "l", "t", "-", "A", "]", "I", "N", "=", "e", "t",
    "h", "0">>

\* an annotation with two parts in the brackets
BR_TWO_PARTS == <<"[", "L", "A", "N", "_", "L", "O", "C", "A", "L", "-",
    "d", "e", "f", "a", "u", "l", "t", "]", "I", "N", "=", "e", "t", "h",
    "0">>

\* token 3 of tests::parse_line_unknown_line
BR_MARTIAN == <<"0", ".", "0", ".", "0", ".", "0">>

TOK_OUT == <<"O", "U", "T", "=">>

TOK_OUT_ETH1 == <<"O", "U", "T", "=", "e", "t", "h", "1">>

TOK_SRC == <<"S", "R", "C", "=", "1", "9", "2", ".", "1", "6", "8", ".",
    "1", ".", "8">>

TOK_SRC_2 == <<"S", "R", "C", "=", "1", "0", ".", "0", ".", "0", ".", "7">>

TOK_DST == <<"D", "S", "T", "=", "1", "9", "2", ".", "1", "6", "8", ".",
    "1", ".", "1">>

TOK_LEN == <<"L", "E", "N", "=", "5", "2">>

\* a length that is no number
TOK_LEN_BAD == <<"L", "E", "N", "=", "5", "x">>

TOK_ID == <<"I", "D", "=", "4", "0", "0", "4", "8">>

TOK_ID_2 == <<"I", "D", "=", "4", "0", "0", "4", "9">>

\* an ID one past the largest i32
TOK_ID_BIG == <<"I", "D", "=", "2", "1", "4", "7", "4", "8", "3", "6", "4",
    "8">>

\* a flag: no '='
TOK_DF == <<"D", "F">>

TOK_PROTO == <<"P", "R", "O", "T", "O", "=", "T", "C", "P">>

TOK_SPT == <<"S", "P", "T", "=", "8", "0", "8", "0">>

TOK_DPT == <<"D", "P", "T", "=", "4", "5", "1", "1", "7">>

\* literal tokens that write the keys of the annotation
TOK_IN == <<"I", "N", "=", "w", "a", "n", "0">>

TOK_FLOW_TYPE == <<"F", "L", "O", "W", "_", "T", "Y", "P", "E", "=", "W",
    "A", "N", "_", "I", "N">>

TOK_RULE_ID == <<"R", "U", "L", "E", "_", "I", "D", "=", "7">>

TOK_FW_ACTION == <<"F", "W", "_", "A", "C", "T", "I", "O", "N", "=", "D">>

TOK_LOGGED_AT == <<"L", "O", "G", "G", "E", "D", "_", "A", "T", "=", "2",
    "0", "1", "9", "-", "0", "1", "-", "1", "2", "T", "1", "3", ":", "5",
    "6", ":", "0", "6", "Z">>

\* a value with an '=' in it
TOK_TWO_EQ == <<"A", "=", "b", "=", "c">>

\* an empty key
TOK_NO_KEY == <<"=", "v">>

\* an address longer than VARCHAR(16)
TOK_LONG_SRC == <<"S", "R", "C", "=", "2", "0", "0", "1", ":", "d", "b",
    "8", ":", "8", "5", "a", "3", ":", ":", "8", "a", "2", "e", ":", "3",
    "7", "0", ":", "7", "3", "3", "4">>

TOK_MAC == <<"M", "A", "C", "=", "0", "0", ":", "0", "0", ":", "0", "0",
    ":", "0", "0", ":", "0", "0", ":", "0", "0", ":", "0", "0", ":", "0",
    "0", ":", "0", "0", ":", "0", "0", ":", "0", "0", ":", "0", "0", ":",
    "0", "0", ":", "0", "0">>

TOK_TOS == <<"T", "O", "S", "=", "0", "x", "0", "0">>

TOK_PREC == <<"P", "R", "E", "C", "=", "0", "x", "0", "0">>

TOK_TTL == <<"T", "T", "L", "=", "6", "4">>

TOK_WINDOW == <<"W", "I", "N", "D", "O", "W", "=", "2", "8", "0">>

TOK_RES == <<"R", "E", "S", "=", "0", "x", "0", "0">>

TOK_ACK == <<"A", "C", "K">>

TOK_URGP == <<"U", "R", "G", "P", "=", "0">>

\* tests::parse_brackets_happy_path
good_brackets ==
    <<"[", "L", "A", "N", "_", "I", "N", "-", "4", "0", "0", "1", "-", "A",
      "]", "I", "N", "=", "e", "t", "h", "1">>

\* tests::parse_brackets_unknown_line
bad_brackets ==
    <<"I", "P", "v", "4", ":", " ", "m", "a", "r", "t", "i", "a", "n", " ",
      "s", "o", "u", "r", "c", "e", " ", "0", ".", "0", ".", "0", ".", "0",
      " ", "f", "r", "o", "m", " ", "0", ".", "0", ".", "0", ".", "0", ",",
      " ", "o", "n", " ", "d", "e", "v", " ", "e", "t", "h", "0">>

\* the tokens of a line put together again, a space between two of them
RECURSIVE join(_)
join(tokens) ==
    IF tokens = <<>> THEN <<>>
    ELSE IF Len(tokens) = 1 THEN tokens[1]
    ELSE tokens[1] \o <<" ">> \o join(Tail(tokens))

\* tests::parse_line_happy_path
good_line ==
    join(<<TS_PST, HOST, KERNEL, BR_LOCAL, TOK_OUT, TOK_MAC, TOK_SRC, TOK_DST,
           TOK_LEN, TOK_TOS, TOK_PREC, TOK_TTL, TOK_ID, TOK_DF, TOK_PROTO,
           TOK_SPT, TOK_DPT, TOK_WINDOW, TOK_RES, TOK_ACK, TOK_URGP>>)

\* tests::parse_line_unknown_line
bad_line == bad_brackets

\* the start of every line that has an annotation
Header == <<TS_PST, HOST, KERNEL, BR_LOCAL>>

\* a line the table accepts
stored_line ==
    join(Header \o <<TOK_OUT, TOK_SRC, TOK_DST, TOK_LEN, TOK_ID, TOK_DF,
                     TOK_PROTO>>)

\* the same packet with another ID
stored_line_2 ==
    join(Header \o <<TOK_OUT, TOK_SRC, TOK_DST, TOK_LEN, TOK_ID_2, TOK_DF,
                     TOK_PROTO>>)

\* the packet of stored_line, its timestamp written with another offset
stored_line_utc ==
    join(<<TS_UTC, HOST, KERNEL, BR_LOCAL, TOK_OUT, TOK_SRC, TOK_DST, TOK_LEN,
           TOK_ID, TOK_DF, TOK_PROTO>>)

\* no OUT= token: out_interface stays None and the INSERT fails on NOT NULL
no_out_line == join(Header \o <<TOK_SRC, TOK_DST, TOK_LEN, TOK_ID_2>>)

bad_len_line == join(Header \o <<TOK_OUT, TOK_SRC, TOK_DST, TOK_LEN_BAD>>)

bad_timestamp_line ==
    join(<<TS_DATE_ONLY, HOST, KERNEL, BR_LOCAL, TOK_OUT, TOK_SRC, TOK_DST>>)

empty_line == <<>>

timestamp_only_line == TS_PST

\* the lines of the files with more than one line
FilePool ==
    {stored_line, stored_line_2, stored_line_utc, no_out_line, bad_line,
     bad_len_line, bad_timestamp_line, empty_line, timestamp_only_line}

SeqsUpTo(n, S) == UNION {[1..m -> S] : m \in 0..n}

\* token 3 of the one-line files
Annotations == {BR_LOCAL, BR_TWO_PARTS, BR_MARTIAN}

\* tokens 4 and later of the one-line files
TailTokens ==
    {TOK_IN, TOK_FLOW_TYPE, TOK_RULE_ID, TOK_FW_ACTION, TOK_LOGGED_AT,
     TOK_SRC, TOK_SRC_2, TOK_OUT_ETH1, TOK_DF, TOK_TWO_EQ, TOK_NO_KEY,
     TOK_ID_BIG}

\* tokens 4 and later of the one-line files of SpecBuild
BuildTokens ==
    {TOK_IN, TOK_LOGGED_AT, TOK_SRC, TOK_SRC_2, TOK_OUT_ETH1, TOK_DF,
     TOK_ID_BIG}

\* the tokens of the lines that have fewer than 4 tokens
ShortTokens == {<<>>, TS_PST, BR_LOCAL, TOK_SRC}

\* the lines of the one-line files
LineInputs ==
    {join(<<TS_PST, HOST, KERNEL, b>> \o t) :
        b \in Annotations, t \in SeqsUpTo(MaxTail, TailTokens)}
    \cup {join(t) : t \in SeqsUpTo(3, ShortTokens) \ {<<>>}}
    \cup {good_line, join(Header \o <<TOK_OUT, TOK_LONG_SRC, TOK_DST>>)}

\* the files ingest_file is run on, as content.lines() yields them
Files == {<<l>> : l \in LineInputs} \cup SeqsUpTo(MaxLines, FilePool)

\* the files of SpecBuild
BuildFiles ==
    {<<l>> : l \in FilePool}
    \cup {<<join(Header \o t)>> : t \in SeqsUpTo(MaxTail, BuildTokens)}

----------------------------------------------------------------------------
(* ingest_file *)

Idle == <<>>

\* the loop variable of ingest_file
line == content[i]

\* the Result of parse_line(line) that ingest_file matches on
parse_result == the(parsed)

\* what stops a run sets first_run_entries the first time
first_run_entries_at_stop ==
    IF run = 1 THEN entries ELSE first_run_entries

\* the main function has got the file and the connection; the table is empty
Init ==
    /\ content \in Files
    /\ i = 0
    /\ pc = "ingest_file"
    /\ run = 1
    /\ entries = <<>>
    /\ offered = <<>>
    /\ skipped = <<>>
    /\ first_run_entries = <<>>
    /\ parsed = None
    /\ todo = {} /\ entry = Idle /\ bracket = Idle /\ extracted = Idle

\* one turn of the loop of ingest_file, parse_line returning Err: the line
\* is reported and skipped
IngestSkip ==
    /\ pc = "ingest_file"
    /\ i < Len(content)
    /\ LET r == parse_line(content[i + 1])
       IN  /\ ~r.ok
           /\ parsed' = Some(r)
           /\ skipped' = Append(skipped, [run |-> run, n |-> i + 1,
                                          line |-> content[i + 1],
                                          err |-> r.err])
    /\ i' = i + 1
    /\ UNCHANGED <<content, pc, run, entries, offered, first_run_entries,
                   todo, entry, bracket, extracted>>

\* one turn of the loop of ingest_file, parse_line returning Ok and
\* insert_line returning: the Entry is built and handed to db_conn.execute,
\* whose Err is reported and dropped
IngestInsert ==
    /\ pc = "ingest_file"
    /\ i < Len(content)
    /\ LET r == parse_line(content[i + 1])
       IN  /\ r.ok
           /\ parsed' = Some(r)
           /\ LET b == build_entry(r.val, DOMAIN r.val, Entry_new)
              IN  /\ b.ok
                  /\ LET x == execute_insert(entries, b.val)
                     IN  /\ entries' = x.table
                         /\ offered' = Append(offered,
                                [run |-> run, n |-> i + 1,
                                 line |-> content[i + 1],
                                 entry |-> b.val, ok |-> x.result.ok])
    /\ i' = i + 1
    /\ UNCHANGED <<content, pc, run, skipped, first_run_entries,
                   todo, entry, bracket, extracted>>

\* one turn of the loop of ingest_file, parse_line returning Ok and an
\* unwrap of insert_line panicking: the process ends
IngestPanic ==
    /\ pc = "ingest_file"
    /\ i < Len(content)
    /\ LET r == parse_line(content[i + 1])
       IN  /\ r.ok
           /\ parsed' = Some(r)
           /\ ~build_entry(r.val, DOMAIN r.val, Entry_new).ok
    /\ i' = i + 1
    /\ pc' = "panicked"
    /\ first_run_entries' = first_run_entries_at_stop
    /\ UNCHANGED <<content, run, entries, offered, skipped,
                   todo, entry, bracket, extracted>>

\* the loop of ingest_file is over: Ok(())
Return ==
    /\ pc = "ingest_file"
    /\ i = Len(content)
    /\ pc' = "done"
    /\ first_run_entries' = first_run_entries_at_stop
    /\ UNCHANGED <<content, i, run, entries, offered, skipped, parsed,
                   todo, entry, bracket, extracted>>

\* main is started again on the same file: db::init finds the table
\* (CREATE TABLE IF NOT EXISTS) and ingest_file reads the file again
Restart ==
    /\ pc \in {"done", "panicked"}
    /\ run < MaxRuns
    /\ run' = run + 1
    /\ i' = 0
    /\ pc' = "ingest_file"
    /\ parsed' = None
    /\ UNCHANGED <<content, entries, offered, skipped, first_run_entries,
                   todo, entry, bracket, extracted>>

Next == IngestSkip \/ IngestInsert \/ IngestPanic \/ Return \/ Restart

Spec == Init /\ [][Next]_vars

----------------------------------------------------------------------------
(* SpecBuild: one line ingested, the for loop of insert_line taken one key
   at a time, in every order the HashMap may yield its keys *)

InitBuild ==
    /\ content \in BuildFiles
    /\ i = 0
    /\ pc = "ingest_file"
    /\ run = 1
    /\ entries = <<>>
    /\ offered = <<>>
    /\ skipped = <<>>
    /\ first_run_entries = <<>>
    /\ parsed = None
    /\ todo = {} /\ entry = Idle /\ bracket = Idle /\ extracted = Idle

\* parse_line(line) and the match on it: Err skips the line, Ok enters
\* insert_line with a new Entry
ParseLine ==
    /\ pc = "ingest_file"
    /\ i < Len(content)
    /\ i' = i + 1
    /\ LET r == parse_line(content[i + 1])
       IN  /\ parsed' = Some(r)
           /\ IF r.ok
              THEN /\ pc' = "insert_line"
                   /\ todo' = DOMAIN r.val
                   /\ entry' = Entry_new
                   /\ UNCHANGED skipped
              ELSE /\ skipped' = Append(skipped, [run |-> run, n |-> i + 1,
                                                 line |-> content[i + 1],
                                                 err |-> r.err])
                   /\ UNCHANGED <<pc, todo, entry>>
    /\ UNCHANGED <<content, run, entries, offered, first_run_entries,
                   bracket, extracted>>

\* one turn of the for loop of insert_line, on whichever key the map yields
BuildStep ==
    /\ pc = "insert_line"
    /\ \E k \in todo :
          LET b == apply_key(entry, k, parse_result.val[k])
          IN  IF b.ok
              THEN /\ entry' = b.val
                   /\ todo' = todo \ {k}
                   /\ UNCHANGED <<pc, first_run_entries>>
              ELSE /\ pc' = "panicked"
                   /\ first_run_entries' = first_run_entries_at_stop
                   /\ UNCHANGED <<entry, todo>>
    /\ UNCHANGED <<content, i, run, entries, offered, skipped, parsed,
                   bracket, extracted>>

\* the for loop of insert_line is over: db_conn.execute
Execute ==
    /\ pc = "insert_line"
    /\ todo = {}
    /\ LET x == execute_insert(entries, entry)
       IN  /\ entries' = x.table
           /\ offered' = Append(offered, [run |-> run, n |-> i, line |-> line,
                                          entry |-> entry,
                                          ok |-> x.result.ok])
    /\ pc' = "ingest_file"
    /\ UNCHANGED <<content, i, run, skipped, first_run_entries, parsed,
                   todo, entry, bracket, extracted>>

NextBuild == ParseLine \/ BuildStep \/ Execute \/ Return

SpecBuild == InitBuild /\ [][NextBuild]_vars

----------------------------------------------------------------------------
(* Inputs of SpecBrackets *)

\* the characters parse_brackets tells apart, and one of each other kind
BracketAlphabet == {"]", "-", "=", "a", MULTIBYTE}

StringsUpTo(n) == UNION {[1..m -> BracketAlphabet] : m \in 0..n}

BracketInputs == StringsUpTo(MaxTokLen) \cup {good_brackets, bad_brackets}

----------------------------------------------------------------------------
(* SpecBrackets: parse_brackets applied to one token *)

InitBrackets ==
    /\ bracket \in BracketInputs
    /\ extracted = Idle
    /\ pc = "parse_brackets"
    /\ content = Idle /\ i = 0 /\ run = 0 /\ entries = Idle
    /\ offered = Idle /\ skipped = Idle /\ first_run_entries = Idle
    /\ parsed = Idle /\ todo = {} /\ entry = Idle

ParseBrackets ==
    /\ pc = "parse_brackets"
    /\ extracted' = parse_brackets(bracket)
    /\ pc' = "returned"
    /\ UNCHANGED <<content, i, run, entries, offered, skipped,
                   first_run_entries, parsed, todo, entry, bracket>>

NextBrackets == ParseBrackets

SpecBrackets == InitBrackets /\ [][NextBrackets]_vars

----------------------------------------------------------------------------
(* Reading a delimited string by the positions of its delimiters *)

Occurrences(s, c) == {n \in 1..Len(s) : s[n] = c}

\* position of the n-th occurrence of c in s, n counted from 1
NthOccurrence(s, c, n) ==
    LET occ == Occurrences(s, c)
    IN  CHOOSE p \in occ : Cardinality({q \in occ : q < p}) = n - 1

\* part n of s delimited by c, n counted from 0; there are
\* Cardinality(Occurrences(s, c)) + 1 parts
Part(s, c, n) ==
    LET from == IF n = 0 THEN 1 ELSE NthOccurrence(s, c, n) + 1
        to == IF n < Cardinality(Occurrences(s, c))
              THEN NthOccurrence(s, c, n + 1) - 1
              ELSE Len(s)
    IN  SubSeq(s, from, to)

\* everything after the first occurrence of c in s
AfterFirst(s, c) == SubSeq(s, NthOccurrence(s, c, 1) + 1, Len(s))

DropFirstChar(s) == IF s = <<>> THEN <<>> ELSE Tail(s)

----------------------------------------------------------------------------
(* C5 *)

\* the Annotation Extractor as the claim words it: the token is split on
\* the first "]" only, and nothing but a missing part fails
AnnotationAsClaimed(t) ==
    IF Occurrences(t, "]") = {} THEN Err(OutOfBounds)
    ELSE LET body == Part(t, "]", 0)
             rest == AfterFirst(t, "]")
         IN  IF Cardinality(Occurrences(body, "-")) < 2 THEN Err(OutOfBounds)
             ELSE IF Occurrences(rest, "=") = {} THEN Err(OutOfBounds)
             ELSE Ok(<<DropFirstChar(Part(body, "-", 0)), Part(body, "-", 1),
                       Part(body, "-", 2), Part(rest, "=", 1)>>)

\* the same with the interface read from the text between the first and the
\* second "]", and a failure when there is no one-byte first character to
\* remove
AnnotationAmended(t) ==
    IF Occurrences(t, "]") = {} THEN Err(OutOfBounds)
    ELSE LET body == Part(t, "]", 0)
             rest == Part(t, "]", 1)
             first == Part(body, "-", 0)
         IN  IF Cardinality(Occurrences(body, "-")) < 2 THEN Err(OutOfBounds)
             ELSE IF Occurrences(rest, "=") = {} THEN Err(OutOfBounds)
             ELSE IF first = <<>> \/ first[1] = MULTIBYTE THEN Err(OutOfBounds)
             ELSE Ok(<<Tail(first), Part(body, "-", 1),
                       Part(body, "-", 2), Part(rest, "=", 1)>>)

\* C5 as claimed: for every token, parse_brackets returns what the Annotation
\* Extractor of the claim returns (token split on "]" into at most two parts,
\* failure only for a missing part)
C5_AsClaimed ==
    pc = "returned" => extracted = AnnotationAsClaimed(bracket)

\* C5 amended: for every token, parse_brackets returns what the Annotation
\* Extractor returns when the token is split on every "]" (the interface is
\* read from the text between the first and the second "]") and an empty or
\* multi-byte-led first "-" part is a failure too
C5_Amended ==
    pc = "returned" => extracted = AnnotationAmended(bracket)

\* C5 witness: the happy path of the tests has been extracted
C5_Witness ==
    /\ pc = "returned"
    /\ bracket = good_brackets
    /\ extracted = Ok(<<SubSeq(good_brackets, 2, 7), <<"4", "0", "0", "1">>,
                        <<"A">>, <<"e", "t", "h", "1">>>>)

----------------------------------------------------------------------------
(* Reading a line by the positions of its spaces *)

NumTokens(l) == Cardinality(Occurrences(l, " ")) + 1

\* token n of line l, n counted from 0
Token(l, n) == Part(l, " ", n)

TokensOf(l) == [n \in 1..NumTokens(l) |-> Token(l, n - 1)]

\* the line l without its token n, n counted from 0
WithoutToken(l, n) ==
    join(SubSeq(TokensOf(l), 1, n) \o SubSeq(TokensOf(l), n + 2, NumTokens(l)))

HasEquals(t) == Occurrences(t, "=") # {}

\* two Results are the same outcome
SameResult(a, b) ==
    /\ a.ok = b.ok
    /\ a.err = b.err
    /\ a.ok => a.val = b.val

\* parse_line has been applied to the line the loop stands at
LineParsed == i >= 1 /\ is_some(parsed)

\* the keys and values the token t at position n (counted from 0) writes
\* to the FieldMap: token 0 writes LOGGED_AT, token 3 the four keys of the
\* annotation, a later token with an '=' its key
TokenWrites(t, n) ==
    IF n = 0 THEN {<<KEY_LOGGED_AT, t>>}
    ELSE IF n = 3
         THEN LET a == AnnotationAmended(t).val
              IN  {<<KEY_FW_ACTION, a[3]>>, <<KEY_RULE_ID, a[2]>>,
                   <<KEY_FLOW_TYPE, a[1]>>, <<KEY_IN, a[4]>>}
    ELSE IF n >= 4 /\ HasEquals(t)
         THEN {<<Part(t, "=", 0), Part(t, "=", 1)>>}
    ELSE {}

----------------------------------------------------------------------------
(* C1 *)

\* C1 as claimed: no line aborts the run: the process never panics, and
\* when ingest_file returns every line of the file has been skipped or
\* offered to the sink
C1_AsClaimed ==
    /\ pc # "panicked"
    /\ pc = "done" =>
          \A n \in 1..Len(content) :
              \/ \E k \in 1..Len(skipped) :
                     skipped[k].run = run /\ skipped[k].n = n
              \/ \E k \in 1..Len(offered) :
                     offered[k].run = run /\ offered[k].n = n

----------------------------------------------------------------------------
(* C2 *)

\* C2 as claimed: parse_line returns the OutOfBounds failure for every line
\* that has fewer than 4 tokens
C2_AsClaimed ==
    (LineParsed /\ NumTokens(line) < 4) =>
        (~parse_result.ok /\ parse_result.err = OutOfBounds)

----------------------------------------------------------------------------
(* C3 *)

\* C3 as claimed: every record handed to the sink comes from a line whose
\* token 3 was parsed by parse_brackets
C3_AsClaimed ==
    \A k \in 1..Len(offered) :
        /\ NumTokens(offered[k].line) >= 4
        /\ parse_brackets(Token(offered[k].line, 3)).ok

----------------------------------------------------------------------------
(* C4 *)

\* C4: from the second run on the table holds the rows it held when the
\* first run stopped, and every insert of a later run is refused without
\* ending the run there
C4_Idempotent ==
    /\ run >= 2 => entries = first_run_entries
    /\ \A k \in 1..Len(offered) :
           offered[k].run >= 2 =>
               /\ ~offered[k].ok
               /\ (offered[k].n = i => pc # "panicked")

\* C4 witness: the second run is over, the table holds rows of the first
\* run, and an insert of the second run has been refused
C4_Witness ==
    /\ run = 2
    /\ pc = "done"
    /\ Len(entries) >= 2
    /\ \E k \in 1..Len(offered) : offered[k].run = 2 /\ ~offered[k].ok

----------------------------------------------------------------------------
(* C6 *)

\* C6: a line of 4 tokens or more whose token 3 is no annotation makes
\* parse_line return OutOfBounds, whatever the later tokens are, and the
\* line is reported as skipped and never offered to the sink
C6_AllOrNothing ==
    (/\ LineParsed
     /\ NumTokens(line) >= 4
     /\ ~AnnotationAmended(Token(line, 3)).ok) =>
        /\ ~parse_result.ok
        /\ parse_result.err = OutOfBounds
        /\ pc # "panicked"
        /\ \E k \in 1..Len(skipped) : skipped[k].run = run /\ skipped[k].n = i
        /\ ~\E k \in 1..Len(offered) : offered[k].run = run /\ offered[k].n = i

\* C6 witness: a line with a two-part annotation and two well-formed
\* KEY=VALUE tokens after it has been skipped
C6_Witness ==
    /\ LineParsed
    /\ line = join(<<TS_PST, HOST, KERNEL, BR_TWO_PARTS, TOK_SRC,
                     TOK_OUT_ETH1>>)
    /\ ~parse_result.ok
    /\ Len(skipped) = 1
    /\ offered = <<>>

----------------------------------------------------------------------------
(* C7 *)

\* C7: when parse_line succeeds the FieldMap has the keys the tokens wrote,
\* each with the value the last token that wrote it gave it
C7_LastWriteWins ==
    (LineParsed /\ parse_result.ok) =>
        LET map == parse_result.val
            tokens == TokensOf(line)
            writes == [n \in 1..Len(tokens) |-> TokenWrites(tokens[n], n - 1)]
        IN  /\ DOMAIN map =
                   {w[1] : w \in UNION {writes[n] : n \in 1..Len(tokens)}}
            /\ \A k \in DOMAIN map :
                   LET writers == {n \in 1..Len(tokens) :
                                      \E w \in writes[n] : w[1] = k}
                       last == CHOOSE n \in writers :
                                   \A m \in writers : m <= n
                   IN  <<k, map[k]>> \in writes[last]

\* C7 witness: a literal IN= token after the annotation has replaced the
\* interface of the annotation
C7_Witness ==
    /\ LineParsed
    /\ line = join(Header \o <<TOK_SRC, TOK_IN>>)
    /\ parse_result.ok
    /\ parse_result.val[KEY_IN] = <<"w", "a", "n", "0">>

----------------------------------------------------------------------------
(* C8 *)

\* C8: a token at position 4 or later without '=' changes nothing: the
\* result of parse_line is the result for the line without that token, and
\* it is a success whenever token 3 is an annotation
C8_DroppedToken ==
    LineParsed =>
        \A n \in 4..(NumTokens(line) - 1) :
            ~HasEquals(Token(line, n)) =>
                /\ SameResult(parse_result, parse_line(WithoutToken(line, n)))
                /\ AnnotationAmended(Token(line, 3)).ok => parse_result.ok

\* C8 witness: DF between the annotation and SRC= has been dropped, and
\* the keys before and after it are in the FieldMap
C8_Witness ==
    /\ LineParsed
    /\ line = join(Header \o <<TOK_DF, TOK_SRC>>)
    /\ parse_result.ok
    /\ TOK_DF \notin DOMAIN parse_result.val
    /\ parse_result.val[KEY_IN] = <<"e", "t", "h", "0">>
    /\ parse_result.val[KEY_SRC] = SubSeq(TOK_SRC, 5, Len(TOK_SRC))

----------------------------------------------------------------------------
(* C10 *)

\* token n of the line is the last one to write its key
WritesLast(l, n) ==
    /\ HasEquals(Token(l, n))
    /\ \A m \in (n + 1)..(NumTokens(l) - 1) :
           HasEquals(Token(l, m)) =>
               Part(Token(l, m), "=", 0) # Part(Token(l, n), "=", 0)

\* C10 as claimed: the value stored for a token at position 4 or later is
\* all the text after its first '='
C10_AsClaimed ==
    (LineParsed /\ parse_result.ok) =>
        \A n \in 4..(NumTokens(line) - 1) :
            WritesLast(line, n) =>
                parse_result.val[Part(Token(line, n), "=", 0)]
                    = AfterFirst(Token(line, n), "=")

\* C10 amended: the value stored for a token at position 4 or later is the
\* text after its first '=' up to its second '=', or up to its end when
\* there is no second one
C10_Amended ==
    (LineParsed /\ parse_result.ok) =>
        \A n \in 4..(NumTokens(line) - 1) :
            WritesLast(line, n) =>
                parse_result.val[Part(Token(line, n), "=", 0)]
                    = Part(AfterFirst(Token(line, n), "="), "=", 0)

\* C10 witness: the token A=b=c has stored b under A
C10_Witness ==
    /\ LineParsed
    /\ line = join(Header \o <<TOK_TWO_EQ>>)
    /\ parse_result.ok
    /\ parse_result.val[<<"A">>] = <<"b">>

----------------------------------------------------------------------------
(* C9 *)

TextOf(map, k) == IF k \in DOMAIN map THEN map[k] ELSE <<>>

NumberOf(map, k) == IF k \in DOMAIN map THEN parse_i32(map[k]).val ELSE 0

\* the FlowRecord of a FieldMap, field by field
FlowRecordOf(map) ==
    [id |-> 0,
     src_ip |-> TextOf(map, KEY_SRC),
     src_port |-> NumberOf(map, KEY_SPT),
     dst_ip |-> TextOf(map, KEY_DST),
     dst_port |-> NumberOf(map, KEY_DPT),
     packet_size |-> NumberOf(map, KEY_LEN),
     packet_id |-> NumberOf(map, KEY_ID),
     protocol |-> TextOf(map, KEY_PROTO),
     flow_type |-> TextOf(map, KEY_FLOW_TYPE),
     rule_id |-> TextOf(map, KEY_RULE_ID),
     fw_action |-> TextOf(map, KEY_FW_ACTION),
     in_interface |-> TextOf(map, KEY_IN),
     out_interface |-> IF KEY_OUT \in DOMAIN map THEN Some(map[KEY_OUT])
                       ELSE None,
     logged_at |-> IF KEY_LOGGED_AT \in DOMAIN map
                   THEN Some(parse_from_rfc3339(map[KEY_LOGGED_AT]).val)
                   ELSE None]

\* C9: whatever the order in which insert_line visits the keys of the map,
\* the Entry it has built when its loop is over, and the one it hands to the
\* sink, is the one FlowRecord the text of the line determines
C9_Deterministic ==
    /\ (pc = "insert_line" /\ todo = {}) =>
           entry = FlowRecordOf(parse_line(line).val)
    /\ \A k \in 1..Len(offered) :
           offered[k].entry = FlowRecordOf(parse_line(offered[k].line).val)

\* C9 witness: the loop of insert_line is over for a line of eleven keys
C9_Witness ==
    /\ pc = "insert_line"
    /\ todo = {}
    /\ line = stored_line
    /\ Cardinality(DOMAIN parse_result.val) = 11
    /\ entry.packet_id = 40048

====
